---- MODULE Spec2Model ----
(***************************************************************************)
(* A model of spaceKLIP's stage 1 pipeline class Coron1Pipeline_spaceKLIP  *)
(* (src/spaceKLIP/coron1pipeline.py).                                      *)
(*                                                                         *)
(* A data-quality word is modelled as the set of its bits (bitwise OR is   *)
(* union, bitwise AND is intersection, "> 0" is non-emptiness).  Arrays    *)
(* are functions over 0-based index sets, as in numpy.  Data models live   *)
(* in a two-cell heap so that a step that works in place and a step that   *)
(* returns a copy are both represented: `input` and `res` are references.  *)
(***************************************************************************)
EXTENDS Integers, Sequences, FiniteSets, TLC

\* ------------------------------------------------------------------ bounds
\* Rows and columns of the sub-array of the reference-pixel scenarios.
RefpixNY == 4
RefpixNX == 2
\* Largest number of rows (nlower, nupper) requested as pseudo reference rows.
MaxRows == 2
\* The ramp of the saturation scenarios: integrations, groups, rows, columns.
SatInts == 2
SatGroups == 2
SatNY == 3
SatNX == 3
\* Largest n_pix_grow_sat.
MaxGrow == 2
\* The ramp of the ramp-fit scenarios: most integrations, columns (one row).
MaxRateInts == 6
RateNX == 2
\* The rate of a pixel far off the others.
OffRate == 50
\* The ramp of the noise-removal scenarios: integrations, groups, and the
\* larger number of rows and of columns.
NoiseInts == 2
NoiseGroups == 3
NoiseNY == 4
NoiseNX == 4
\* The saturation level of every pixel in those scenarios.
SatLevel == 12

\* ------------------------------------------------------------- DQ algebra
Flags == {"DO_NOT_USE", "SATURATED", "JUMP_DET", "REFERENCE_PIXEL", "RC"}

None == "None"
\* The null reference.
NoRef == 0

\* The subsets of S with at most one element.
AtMostOne(S) == {{}} \cup {{x} : x \in S}

Min(a, b) == IF a < b THEN a ELSE b
Max(a, b) == IF a > b THEN a ELSE b

\* The indices numpy selects for the slice [start:stop] of an axis of length n:
\* a negative bound counts from the end and a bound outside the axis is
\* clipped to it.
SliceBound(i, n) == IF i < 0 THEN Max(i + n, 0) ELSE Min(i, n)
PySlice(start, stop, n) ==
    {k \in 0..(n - 1) : SliceBound(start, n) <= k /\ k < SliceBound(stop, n)}
\* The slice [start:None], open at the end.
PySliceFrom(start, n) == {k \in 0..(n - 1) : SliceBound(start, n) <= k}

\* ------------------------------------------------------------------ state
VARIABLES
    pc,      \* the statement the running method is at
    meta,    \* the exposure's metadata (instrument, sub-array, dimensions)
    heap,    \* the live data models: model id -> arrays, or None
    input,   \* the model the name `input` refers to
    res,     \* the model the name `res` refers to, or NoRef
    steps,   \* the parameters of the pipeline's steps (self.refpix, ...)
    loc,     \* the running method's local variables
    hist     \* history of the run, for stating the properties (not program state)

vars == <<pc, meta, heap, input, res, steps, loc, hist>>

\* Cells 1 and 2 hold the ramp model and the copy a step may return; cells 3
\* and 4 the rate and rateints products of the first ramp fit, 5 and 6 those
\* of the second.
ModelIds == 1..6
Other(id) == IF id = 1 THEN 2 ELSE 1

Rows == 0..(meta.ny - 1)
Cols == 0..(meta.nx - 1)
Pixels == Rows \X Cols

\* ------------------------------------------------------- do_pseudo_refpix
\* The row and column ranges of lines 473-488, as numpy reads them.
LowerRows(rp) == PySlice(rp.nrow_off, rp.nrow_off + rp.nlower, meta.ny)
UpperRows(rp) ==
    IF rp.nrow_off = 0
    THEN PySliceFrom(-1 * (rp.nupper + rp.nrow_off), meta.ny)
    ELSE PySlice(-1 * (rp.nupper + rp.nrow_off), -1 * rp.nrow_off, meta.ny)
LeftCols(rp) == PySlice(rp.ncol_off, rp.ncol_off + rp.nleft, meta.nx)
RightCols(rp) ==
    IF rp.ncol_off = 0
    THEN PySliceFrom(-1 * (rp.nright + rp.ncol_off), meta.nx)
    ELSE PySlice(-1 * (rp.nright + rp.ncol_off), -1 * rp.ncol_off, meta.nx)

\* The four regions, in the order the code visits them; a region whose width
\* is not positive is skipped (the `if n...>0` guards).
Regions(rp) ==
    << IF rp.nlower > 0 THEN LowerRows(rp) \X Cols ELSE {},
       IF rp.nupper > 0 THEN UpperRows(rp) \X Cols ELSE {},
       IF rp.nleft  > 0 THEN Rows \X LeftCols(rp) ELSE {},
       IF rp.nright > 0 THEN Rows \X RightCols(rp) ELSE {} >>

\* a[region] = a[region] | flag
OrInto(a, region, flag) ==
    [p \in DOMAIN a |-> IF p \in region THEN a[p] \cup {flag} ELSE a[p]]

\* a[region] = b[region]
CopyInto(a, region, b) ==
    [p \in DOMAIN a |-> IF p \in region THEN b[p] ELSE a[p]]

\* FloodPixeldq with the offsets left out.
FloodPixeldqNoOffset(pixeldq, rp) ==
    LET r  == Regions([rp EXCEPT !.nrow_off = 0, !.ncol_off = 0])
        a1 == OrInto(pixeldq, r[1], "REFERENCE_PIXEL")
        a2 == OrInto(a1, r[2], "REFERENCE_PIXEL")
        a3 == OrInto(a2, r[3], "REFERENCE_PIXEL")
    IN  OrInto(a3, r[4], "REFERENCE_PIXEL")

\* Lines 473-488: OR REFERENCE_PIXEL into the four regions, one after the other.
FloodPixeldq(pixeldq, rp) ==
    LET r  == Regions(rp)
        a1 == OrInto(pixeldq, r[1], "REFERENCE_PIXEL")
        a2 == OrInto(a1, r[2], "REFERENCE_PIXEL")
        a3 == OrInto(a2, r[3], "REFERENCE_PIXEL")
    IN  OrInto(a3, r[4], "REFERENCE_PIXEL")

\* RestorePixeldq as it would be had line 472 kept a reference to pixeldq
\* rather than a copy: the saved values are the flooded ones.
RestorePixeldqNoCopy(pixeldq, orig, rp) == pixeldq

\* Lines 503-510: assign the saved values back to the four regions.
RestorePixeldq(pixeldq, orig, rp) ==
    LET r  == Regions(rp)
        a1 == CopyInto(pixeldq, r[1], orig)
        a2 == CopyInto(a1, r[2], orig)
        a3 == CopyInto(a2, r[3], orig)
    IN  CopyInto(a3, r[4], orig)

\* The flags the external reference-pixel correction may raise in pixeldq.
RefpixStepFlags == {"DO_NOT_USE"}

\* self.run_step(self.refpix, input), lines 251-255 of run_step: the step's
\* save_results is False while the external reference-pixel correction (jwst
\* RefPixStep) runs and is put back after it.  The correction works in place
\* or on a copy, and may raise flags of its own in pixeldq, here on at most
\* one pixel; or it fails, and the exception leaves run_step before line 255.
\* h is the history so far, next the place the caller goes on from.
RunRefpixStep(h, next) ==
    LET step_save_orig == steps.refpix.save_results
        running == [steps.refpix EXCEPT !.save_results = FALSE]
        called  == [h EXCEPT !.seen = heap[input].pixeldq,
                             !.opts_seen = running,
                             !.calls = h.calls + 1]
    IN  \/ \E inplace \in BOOLEAN, hit \in AtMostOne(Pixels), f \in RefpixStepFlags :
              LET out == IF inplace THEN input ELSE Other(input)
                  dq  == OrInto(heap[input].pixeldq, hit, f)
              IN  /\ heap' = [heap EXCEPT ![out] = [heap[input] EXCEPT !.pixeldq = dq]]
                  /\ res' = out
                  /\ steps' = [steps EXCEPT !.refpix.save_results = step_save_orig]
                  /\ hist' = [called EXCEPT !.corrected = dq,
                                            !.trace = Append(h.trace, "CORRECTED")]
                  /\ pc' = next
        \/ /\ heap' = heap
           /\ res' = res
           /\ steps' = [steps EXCEPT !.refpix = running]
           /\ hist' = [called EXCEPT !.raised = "Exception"]
           /\ pc' = "raised"

\* RunsUnmodified with the columns counted as well (the sum the code has in
\* a comment).
RunsUnmodifiedAllBorders(is_full_frame, rp) ==
    is_full_frame \/ rp.nlower + rp.nupper + rp.nleft + rp.nright = 0

\* Lines 419-430: is_full_frame or nref_set == 0, nref_set the rows only.
RunsUnmodified(is_full_frame, rp) ==
    is_full_frame \/ rp.nlower + rp.nupper = 0

\* Lines 418-433: full frame, or no pseudo reference rows asked for: the
\* correction runs as it is; otherwise do_pseudo_refpix.
DoRefpix ==
    /\ pc = "do_refpix"
    /\ IF RunsUnmodified(meta.full_frame, steps.refpix)
       THEN /\ RunRefpixStep([hist EXCEPT !.entry = heap[input],
                                             !.entry_opts = steps.refpix],
                              "refpix_return")
            /\ UNCHANGED <<meta, input, loc>>
       ELSE /\ pc' = "do_pseudo_refpix"
            /\ hist' = [hist EXCEPT !.pseudo = TRUE,
                                    !.entry = heap[input],
                                    !.entry_opts = steps.refpix]
            /\ UNCHANGED <<meta, heap, input, res, steps, loc>>

\* Lines 457-493: save pixeldq, flood the regions, switch the side reference
\* pixels off when no column is flagged.
PseudoRefpixFlood ==
    /\ pc = "do_pseudo_refpix"
    /\ LET rp   == steps.refpix
           orig == heap[input].pixeldq
       IN  /\ heap' = [heap EXCEPT ![input].pixeldq = FloodPixeldq(orig, rp)]
           /\ loc' = [pixeldq_orig |-> orig,
                      use_side_orig |-> rp.use_side_ref_pixels]
           /\ steps' = IF rp.nleft + rp.nright = 0
                       THEN [steps EXCEPT !.refpix.use_side_ref_pixels = FALSE]
                       ELSE steps
           /\ hist' = [hist EXCEPT !.pre_flood = orig,
                                   !.trace = Append(hist.trace, "FLAGGED")]
    /\ pc' = "refpix_step"
    /\ UNCHANGED <<meta, input, res>>

\* Line 496: the correction runs on the flooded model.
PseudoRefpixStep ==
    /\ pc = "refpix_step"
    /\ RunRefpixStep(hist, "refpix_restore")
    /\ UNCHANGED <<meta, input, loc>>

\* RestoreUseSide left out.
KeepUseSide(rp, use_side_orig) == rp

\* Line 499: self.refpix.use_side_ref_pixels = use_side_orig
RestoreUseSide(rp, use_side_orig) ==
    [rp EXCEPT !.use_side_ref_pixels = use_side_orig]

\* Lines 499-512: put the step parameter back, unflag the regions in the
\* result, return it.
PseudoRefpixRestore ==
    /\ pc = "refpix_restore"
    /\ steps' = [steps EXCEPT !.refpix = RestoreUseSide(steps.refpix, loc.use_side_orig)]
    /\ heap' = [heap EXCEPT ![res].pixeldq =
                  RestorePixeldq(heap[res].pixeldq, loc.pixeldq_orig, steps.refpix)]
    /\ hist' = [hist EXCEPT !.trace = Append(hist.trace, "RESTORED")]
    /\ pc' = "refpix_return"
    /\ UNCHANGED <<meta, input, res, loc>>

\* ----------------------------------------------------------- do_saturation
Ints == 0..(meta.nints - 1)
Groups == 0..(meta.ngroups - 1)

\* A boolean mask over a stack of images is modelled as a function from the
\* image's index (<<integration, group>>, or <<integration>>) to the set of
\* pixels where the mask is True.

\* The neighbours of pixel p a dilation by one pixel reaches: along its row
\* and its column, and through the corners as well when diagonal.
Neighbours(p, diagonal) ==
    {q \in Pixels :
        LET dy == IF q[1] > p[1] THEN q[1] - p[1] ELSE p[1] - q[1]
            dx == IF q[2] > p[2] THEN q[2] - p[2] ELSE p[2] - q[2]
        IN  IF diagonal THEN dy <= 1 /\ dx <= 1 ELSE dy + dx <= 1}

RECURSIVE ExpandImage(_, _, _)
\* One image's mask dilated npix times by one pixel.
ExpandImage(image, npix, diagonal) ==
    IF npix <= 0 THEN image
    ELSE ExpandImage(UNION {Neighbours(p, diagonal) : p \in image},
                     npix - 1, diagonal)

\* imagetools.expand_mask: every image of the stack dilated by npix pixels.
ExpandMask(mask, npix, grow_diagonal) ==
    [k \in DOMAIN mask |-> ExpandImage(mask[k], npix, grow_diagonal)]

\* (groupdq & flag) > 0
GroupMask(groupdq, flag) ==
    [k \in Ints \X Groups |-> {p \in Pixels : flag \in groupdq[k[1]][k[2]][p]}]

\* OrGroupMask as an assignment of mask * flag, the word's other bits lost.
SetGroupMask(groupdq, mask, flag) ==
    [i \in Ints |-> [g \in Groups |->
        LET m == mask[<<i, g>>]
        IN  [p \in Pixels |-> IF p \in m THEN {flag} ELSE {}]]]

\* groupdq | (mask * flag), for a mask over <<integration, group>> images
OrGroupMask(groupdq, mask, flag) ==
    [i \in Ints |-> [g \in Groups |->
        LET m == mask[<<i, g>>]
        IN  [p \in Pixels |->
               IF p \in m THEN groupdq[i][g][p] \cup {flag} ELSE groupdq[i][g][p]]]]

\* FlagRC with the RC mask applied to the first integration only.
FlagRCFirstInt(groupdq, pixeldq, flag_rcsat) ==
    IF flag_rcsat
    THEN LET mask_rc == {p \in Pixels : "RC" \in pixeldq[p]}
         IN  OrGroupMask(groupdq, [k \in Ints \X Groups |->
                                     IF k[1] = 0 THEN mask_rc ELSE {}], "SATURATED")
    ELSE groupdq

\* Lines 303-306: the RC pixels of pixeldq, flagged SATURATED in every sample
\* (the 2-D mask broadcasts over integrations and groups).
FlagRC(groupdq, pixeldq, flag_rcsat) ==
    IF flag_rcsat
    THEN LET mask_rc == {p \in Pixels : "RC" \in pixeldq[p]}
         IN  OrGroupMask(groupdq, [k \in Ints \X Groups |-> mask_rc], "SATURATED")
    ELSE groupdq

\* GrownMask with the growth left at expand_mask's diagonal variant.
GrownMaskDiagonal(seed_groupdq, npix_grow) ==
    ExpandMask(GroupMask(seed_groupdq, "SATURATED"), npix_grow, TRUE)

\* Lines 321-327: the SATURATED samples of seed_groupdq, grown by npix_grow
\* pixels along rows and columns, OR-ed into res_groupdq.
GrownMask(seed_groupdq, npix_grow) ==
    ExpandMask(GroupMask(seed_groupdq, "SATURATED"), npix_grow, FALSE)

\* Lines 330-337: the zero frames' saturated pixels (value 0, or RC), grown
\* the same way and set to 0.
GrowZeroframe(zeroframe, pixeldq, flag_rcsat, npix_grow) ==
    LET mask_rc == {p \in Pixels : "RC" \in pixeldq[p]}
        mask_sat == [k \in {<<i>> : i \in Ints} |->
                       {p \in Pixels : zeroframe[k[1]][p] = 0}
                       \cup (IF flag_rcsat THEN mask_rc ELSE {})]
        grown == ExpandMask(mask_sat, npix_grow, FALSE)
    IN  [i \in Ints |->
            LET m == grown[<<i>>]
            IN  [p \in Pixels |-> IF p \in m THEN 0 ELSE zeroframe[i][p]]]

\* self.run_step(self.saturation, input): the external saturation step (jwst
\* SaturationStep).  A pixel found over its threshold in group g0 of an
\* integration is flagged SATURATED from g0 on, together with the box of
\* n_pix_grow_sat pixels around it; a zero frame saturated there is set to 0.
\* The step works in place or on a copy.  The integration is the first or
\* the last, and so is the group; the pixel lies on or above the diagonal
\* (the image, its RC pixel and the growth are the same transposed).
RunSaturationStep ==
    \E inplace \in BOOLEAN, hit \in AtMostOne({p \in Pixels : p[1] <= p[2]}),
       i0 \in {0, meta.nints - 1}, g0 \in {0, meta.ngroups - 1} :
       LET out  == IF inplace THEN input ELSE Other(input)
           box  == ExpandImage(hit, steps.saturation.n_pix_grow_sat, TRUE)
           mask == [k \in Ints \X Groups |->
                      IF k[1] = i0 /\ k[2] >= g0 THEN box ELSE {}]
           gdq  == OrGroupMask(heap[input].groupdq, mask, "SATURATED")
           zf   == [i \in Ints |-> [p \in Pixels |->
                      IF meta.zero_frame /\ i = i0 /\ g0 = 0 /\ p \in box
                      THEN 0 ELSE heap[input].zeroframe[i][p]]]
       IN  /\ heap' = [heap EXCEPT ![out] =
                          [heap[input] EXCEPT !.groupdq = gdq, !.zeroframe = zf]]
           /\ res' = out
           /\ hist' = [hist EXCEPT !.seen = heap[input].groupdq,
                                   !.stepped = gdq,
                                   !.n_pix_seen = steps.saturation.n_pix_grow_sat]

\* Lines 298-313: flag the RC pixels, then choose between the step as it is
\* and the step without growth.
SaturationFlagRC ==
    /\ pc = "do_saturation"
    /\ LET sat == steps.saturation
       IN  /\ loc' = [npix_grow |-> sat.n_pix_grow_sat, flag_rcsat |-> sat.flag_rcsat]
           /\ heap' = [heap EXCEPT ![input].groupdq =
                          FlagRC(heap[input].groupdq, heap[input].pixeldq, sat.flag_rcsat)]
           /\ IF sat.grow_diagonal \/ sat.n_pix_grow_sat = 0
              THEN pc' = "saturation_step" /\ steps' = steps
              ELSE /\ pc' = "saturation_step_0"
                   /\ steps' = [steps EXCEPT !.saturation.n_pix_grow_sat = 0]
    /\ hist' = [hist EXCEPT !.entry = heap[input].groupdq,
                            !.entry_opts = steps.saturation]
    /\ UNCHANGED <<meta, input, res>>

\* Line 310: the step with its own growth; its result is returned.
SaturationStepDefault ==
    /\ pc = "saturation_step"
    /\ RunSaturationStep
    /\ pc' = "saturation_return"
    /\ UNCHANGED <<meta, input, steps, loc>>

\* Line 314: the step without growth.
SaturationStepNoGrowth ==
    /\ pc = "saturation_step_0"
    /\ RunSaturationStep
    /\ pc' = "saturation_grow"
    /\ UNCHANGED <<meta, input, steps, loc>>

\* Lines 316-339: put n_pix_grow_sat back, grow the SATURATED flags of
\* input.groupdq into res.groupdq, grow the zero frames' saturation.
SaturationGrow ==
    /\ pc = "saturation_grow"
    /\ steps' = [steps EXCEPT !.saturation.n_pix_grow_sat = loc.npix_grow]
    /\ LET mask_sat == GrownMask(heap[input].groupdq, loc.npix_grow)
           gdq == OrGroupMask(heap[res].groupdq, mask_sat, "SATURATED")
           zf  == IF meta.zero_frame
                  THEN GrowZeroframe(heap[res].zeroframe, heap[input].pixeldq,
                                     loc.flag_rcsat, loc.npix_grow)
                  ELSE heap[res].zeroframe
       IN  /\ heap' = [heap EXCEPT ![res].groupdq = gdq, ![res].zeroframe = zf]
           /\ hist' = [hist EXCEPT !.seeds = GroupMask(heap[input].groupdq, "SATURATED"),
                                   !.grown = TRUE]
    /\ pc' = "saturation_return"
    /\ UNCHANGED <<meta, input, res, loc>>

\* The k-th smallest (k = 1, 2, ...) of the values vals[i], i in idx.
KthSmallest(vals, idx, k) ==
    CHOOSE v \in {vals[i] : i \in idx} :
        /\ Cardinality({i \in idx : vals[i] < v}) < k
        /\ Cardinality({i \in idx : vals[i] <= v}) >= k

\* The (lower) median of the values vals[i], i in idx.
Median(vals, idx) == KthSmallest(vals, idx, (Cardinality(idx) + 1) \div 2)

\* ------------------------------------------------------------ _fit_slopes
\* The not-a-number of floating point, a value no sample takes: it spreads
\* through every subtraction.
NaN == -1000000
Sub(a, b) == IF a = NaN \/ b = NaN THEN NaN ELSE a - b

RECURSIVE SumOver(_, _)
\* The sum of f[x], x in S.
SumOver(f, S) ==
    IF S = {} THEN 0
    ELSE LET x == CHOOSE y \in S : TRUE IN f[x] + SumOver(f, S \ {x})

\* The value of a group DQ word, 8 bits wide: the sum of its bits' values.
FlagValue(f) ==
    CASE f = "DO_NOT_USE" -> 1
      [] f = "SATURATED" -> 2
      [] f = "JUMP_DET" -> 4
DqValue(word) == SumOver([f \in word |-> FlagValue(f)], word)

RECURSIVE CumSum(_, _, _)
\* np.cumsum(groupdq, axis=0)[g] at pixel p, groupdq one integration's.
\* numpy sums 8-bit words in an accumulator of the platform's integer width,
\* which a ramp's worth of them (255 times the number of groups) cannot fill:
\* the sum never wraps.
CumSum(groupdq, g, p) ==
    IF g < 0 THEN 0
    ELSE CumSum(groupdq, g - 1, p) + DqValue(groupdq[g][p])

\* The mask of the samples whose own DQ word is nonzero.
CurrentGroupMask(groupdq) ==
    [g \in Groups |-> {p \in Pixels : DqValue(groupdq[g][p]) > 0}]

\* Lines 567 and 649: np.cumsum(groupdq, axis=0) > 0, one integration's
\* cumulative bad-sample mask, group by group.
CumulativeMask(groupdq) ==
    [g \in Groups |-> {p \in Pixels : CumSum(groupdq, g, p) > 0}]

\* Line 558: tarr = np.arange(1, ngroups+1) * group_time
Tarr == [g \in Groups |-> (g + 1) * meta.group_time]

\* sat_frac, the default 0.5 of _fit_slopes, as a fraction.
SatFracNum == 1
SatFracDen == 2

\* imagetools.cube_fit for one integration: the straight line through the
\* samples of each pixel that are neither masked nor above sat_frac times
\* the pixel's saturation level, by unweighted least squares (in integer
\* arithmetic, rounded down); NaN when fewer than two samples are left.
CubeFit(tarr, data, bpmask_arr, sat_vals) ==
    [p \in Pixels |->
        LET good == {g \in Groups :
                        /\ p \notin bpmask_arr[g]
                        /\ ~(data[g][p] # NaN
                              /\ data[g][p] * SatFracDen > SatFracNum * sat_vals[p])}
            n    == Cardinality(good)
            St   == SumOver(tarr, good)
            Sy   == SumOver([g \in Groups |-> data[g][p]], good)
            Stt  == SumOver([g \in Groups |-> tarr[g] * tarr[g]], good)
            Sty  == SumOver([g \in Groups |-> tarr[g] * data[g][p]], good)
            den  == n * Stt - St * St
        IN  IF n < 2 \/ \E g \in good : data[g][p] = NaN
            THEN [bias |-> NaN, slope |-> NaN]
            ELSE [bias |-> (Sy * Stt - St * Sty) \div den,
                  slope |-> (n * Sty - St * Sy) \div den]]

\* Lines 554-577: for every integration the cumulative mask and the fit;
\* bias_arr and slope_arr have shape [nints, ny, nx].  bpmask_arr is each
\* integration's mask, as handed to cube_fit.
FitSlopes(cube) ==
    LET cf == [i \in Ints |->
                 CubeFit(Tarr, cube.data[i], CumulativeMask(cube.groupdq[i]),
                         meta.sat_thresh)]
    IN  [bias_arr  |-> [i \in Ints |-> [p \in Pixels |-> cf[i][p].bias]],
         slope_arr |-> [i \in Ints |-> [p \in Pixels |-> cf[i][p].slope]],
         bpmask_arr |-> [i \in Ints |-> CumulativeMask(cube.groupdq[i])]]

\* ----------------------------------------------------------- subtract_ktc
\* SubtractBias with the first integration's bias taken for all.
SubtractBiasFirst(data, bias_arr) ==
    [i \in Ints |-> [g \in Groups |-> [p \in Pixels |->
        Sub(data[i][g][p], bias_arr[0][p])]]]

\* Lines 586-588: input.data[i] -= bias_arr[i], the bias image subtracted
\* from every group of integration i.
SubtractBias(data, bias_arr) ==
    [i \in Ints |-> [g \in Groups |-> [p \in Pixels |->
        Sub(data[i][g][p], bias_arr[i][p])]]]

\* Lines 583-590.
SubtractKtc ==
    /\ pc = "subtract_ktc"
    /\ LET fit == FitSlopes(heap[input])
       IN  /\ heap' = [heap EXCEPT ![input].data =
                          SubtractBias(heap[input].data, fit.bias_arr)]
           /\ hist' = [hist EXCEPT !.fits = hist.fits + 1,
                                   !.fit_mask = fit.bpmask_arr,
                                   !.ktc_slope = fit.slope_arr,
                                   !.called = Append(hist.called, "subtract_ktc"),
                                   !.ktc_entry = heap[input]]
    /\ pc' = "ktc_return"
    /\ UNCHANGED <<meta, input, res, steps, loc>>

\* -------------------------------------------------------- subtract_fnoise
\* ChannelCountOk with the sub-array case left unchecked.
ChannelCountOkFullOnly(is_full_frame, noutputs) ==
    is_full_frame => noutputs = 4

\* Lines 624-627: the two assertions.
ChannelCountOk(is_full_frame, noutputs) ==
    IF is_full_frame THEN noutputs = 4 ELSE noutputs = 1

\* robust.mean(slope_arr, axis=0): the mean over the integrations of the
\* slopes that are numbers.
SlopeMean(slope_arr) ==
    [p \in Pixels |->
        LET ok == {i \in Ints : slope_arr[i][p] # NaN}
        IN  IF ok = {} THEN NaN
            ELSE SumOver([i \in Ints |-> slope_arr[i][p]], ok) \div Cardinality(ok)]

\* Lines 655-656: the columns x1:x2 of channel ch.
ChannelCols(ch, chsize) == PySlice(ch * chsize, ch * chsize + chsize, meta.nx)

\* fnoise_clean.CleanSubarray(image, good_mask).fit(): the noise model of
\* one channel image, the same value along each row: the median of the
\* row's good samples, NaN when the row has none.
CleanSubarrayModel(image, good_mask, cols) ==
    [p \in Rows \X cols |->
        LET good == {x \in cols : <<p[1], x>> \in good_mask}
            row  == [x \in cols |-> image[<<p[1], x>>]]
        IN  IF good = {} \/ \E x \in good : row[x] = NaN THEN NaN
            ELSE Median(row, good)]

\* Lines 629-672: the mean signal ramp from a fit of the cube as it is now,
\* and for every integration, group and channel the noise model of the
\* channel's image less the signal, subtracted from the channel's columns.
\* Yields the new data and, for every sample, how many models were
\* subtracted from it.
FnoiseClean(cube) ==
    LET chsize == meta.ny \div meta.noutputs
        fit == FitSlopes(cube)
        bpmask_arr == [i \in Ints |-> CumulativeMask(cube.groupdq[i])]
        slope_mean == SlopeMean(fit.slope_arr)
        signal_mean_ramp == [g \in Groups |-> [p \in Pixels |->
                               IF slope_mean[p] = NaN THEN NaN
                               ELSE slope_mean[p] * Tarr[g]]]
        model == [i \in Ints |-> [j \in Groups |-> [ch \in 0..(meta.noutputs - 1) |->
                    LET cols == ChannelCols(ch, chsize)
                        imch_diff == [p \in Rows \X cols |->
                                        Sub(cube.data[i][j][p], signal_mean_ramp[j][p])]
                        good_mask == (Rows \X cols) \ bpmask_arr[i][j]
                    IN  CleanSubarrayModel(imch_diff, good_mask, cols)]]]
        chans(p) == {ch \in 0..(meta.noutputs - 1) : p[2] \in ChannelCols(ch, chsize)}
    IN  [data |-> [i \in Ints |-> [j \in Groups |-> [p \in Pixels |->
                     IF chans(p) = {} THEN cube.data[i][j][p]
                     ELSE Sub(cube.data[i][j][p],
                              model[i][j][CHOOSE ch \in chans(p) : TRUE][p])]]],
         nsub |-> [p \in Pixels |-> Cardinality(chans(p))],
         fit_mask |-> fit.bpmask_arr,
         slope_arr |-> fit.slope_arr,
         bpmask_arr |-> bpmask_arr]

\* Lines 619-674.  A failed assertion raises AssertionError before anything
\* is written.
SubtractFnoise ==
    /\ pc = "subtract_fnoise"
    /\ IF ChannelCountOk(meta.full_frame, meta.noutputs)
       THEN LET out == FnoiseClean(heap[input])
            IN  /\ heap' = [heap EXCEPT ![input].data = out.data]
                /\ hist' = [hist EXCEPT !.fits = hist.fits + 1,
                                        !.fit_mask = out.fit_mask,
                                        !.fnoise_mask = out.bpmask_arr,
                                        !.nsub = out.nsub,
                                        !.fnoise_slope = out.slope_arr,
                                        !.called = Append(hist.called, "subtract_fnoise"),
                                        !.fnoise_entry = heap[input]]
                /\ pc' = "fnoise_return"
       ELSE /\ heap' = heap
            /\ hist' = [hist EXCEPT !.raised = "AssertionError",
                                    !.called = Append(hist.called, "subtract_fnoise"),
                                    !.fnoise_entry = heap[input]]
            /\ pc' = "raised"
    /\ UNCHANGED <<meta, input, res, steps, loc>>

\* Lines 148-149: the kTC removal runs when either option is set.
ProcessKtc ==
    /\ pc = "process_ktc"
    /\ pc' = IF steps.self.remove_ktc \/ steps.self.remove_fnoise
             THEN "subtract_ktc" ELSE "process_fnoise"
    /\ UNCHANGED <<meta, heap, input, res, steps, loc, hist>>

\* Lines 149-151: subtract_ktc has returned its input; the 1/f removal runs
\* when remove_fnoise is set.
ProcessFnoise ==
    /\ pc \in {"ktc_return", "process_fnoise"}
    /\ pc' = IF steps.self.remove_fnoise THEN "subtract_fnoise" ELSE "save_ramp"
    /\ UNCHANGED <<meta, heap, input, res, steps, loc, hist>>

\* -------------------------------------------------- apply_rateint_outliers
\* A cube is a function from 0..n-1 (its first axis) to images.
Planes(cube) == Cardinality(DOMAIN cube)

\* cube[1:]
DropFirst(cube) == [i \in 0..(Planes(cube) - 2) |-> cube[i + 1]]

\* imagetools.cube_outlier_detection: no plane is looked at when the cube has
\* fewer than nint_min planes; otherwise a pixel of a plane is an outlier when
\* it lies more than sigma_cut robust standard deviations (the median
\* absolute deviation over 0.6745) from the median of that pixel over the
\* planes.  The result has the shape of the cube.
CubeOutlierDetection(cube, sigma_cut, nint_min) ==
    LET idx == DOMAIN cube
    IN  IF Planes(cube) < nint_min
        THEN [i \in idx |-> {}]
        ELSE [i \in idx |->
                {p \in Pixels :
                    LET vals == [j \in idx |-> cube[j][p]]
                        med  == Median(vals, idx)
                        dev  == [j \in idx |-> IF vals[j] < med THEN med - vals[j]
                                               ELSE vals[j] - med]
                        mad  == Median(dev, idx)
                    IN  dev[i] * 6745 > sigma_cut * mad * 10000}]

\* The defaults of sigma_cut and nint_min.
SigmaCut == 5
NintMin == 5

\* OutlierGroupdq with JUMP_DET left out.
OutlierGroupdqNoJump(groupdq, bpmask) ==
    [i \in Ints |-> [g \in Groups |-> [p \in Pixels |->
        IF "DO_NOT_USE" \in groupdq[i][g][p] \/ p \in bpmask[i]
        THEN groupdq[i][g][p] \cup {"DO_NOT_USE"} ELSE groupdq[i][g][p]]]]

\* Lines 372-387: the outlier mask, one plane per integration, repeated over
\* the groups, OR-ed with the DO_NOT_USE and with the JUMP_DET samples, and
\* each of the two masks OR-ed into groupdq under its flag.
OutlierGroupdq(groupdq, bpmask) ==
    [i \in Ints |-> [g \in Groups |-> [p \in Pixels |->
        LET mask_dnu == "DO_NOT_USE" \in groupdq[i][g][p] \/ p \in bpmask[i]
            mask_jd  == "JUMP_DET" \in groupdq[i][g][p] \/ p \in bpmask[i]
        IN  groupdq[i][g][p]
            \cup (IF mask_dnu THEN {"DO_NOT_USE"} ELSE {})
            \cup (IF mask_jd THEN {"JUMP_DET"} ELSE {})]]]

\* Lines 366-389.  The mask found on the rateints cube (without its first
\* plane for MIRI) is reshaped to [nint, 1, ny, nx], nint the ramp's number
\* of integrations: numpy raises ValueError when the sizes differ.
ApplyRateintOutliers ==
    /\ pc = "apply_rateint_outliers"
    /\ LET rateints_model == heap[loc.rateints]
           data   == IF rateints_model.instrument = "MIRI"
                     THEN DropFirst(rateints_model.data) ELSE rateints_model.data
           indbad == CubeOutlierDetection(data, SigmaCut, NintMin)
       IN  IF Planes(indbad) = meta.nints
           THEN /\ heap' = [heap EXCEPT ![input].groupdq =
                               OutlierGroupdq(heap[input].groupdq, indbad)]
                /\ hist' = [hist EXCEPT !.before = heap[input].groupdq,
                                        !.indbad = indbad]
                /\ pc' = "outliers_return"
           ELSE /\ hist' = [hist EXCEPT !.before = heap[input].groupdq,
                                        !.raised = "ValueError"]
                /\ pc' = "raised"
                /\ heap' = heap
    /\ UNCHANGED <<meta, input, res, steps, loc>>

\* ------------------------------------------------ process, from the ramp fit
\* The rateints cubes a ramp fit may produce: a little noise, and at most one
\* pixel of one integration far off.
RateCubes ==
    {[i \in Ints |-> [p \in Pixels |->
        IF <<i, p>> \in off THEN OffRate ELSE (i + p[2]) % 3]] :
     off \in AtMostOne(Ints \X Pixels)}

\* self.run_step(self.ramp_fit, input): the external ramp fit (jwst
\* RampFitStep) returns the pair of a rate and a rateints product, in cells
\* rate_id and ints_id, or the pair (None, None) when it fits nothing.
RampFitResults(rate_id, ints_id) ==
    {[rate |-> NoRef, rateints |-> NoRef, cube |-> {}]}
    \cup {[rate |-> rate_id, rateints |-> ints_id, cube |-> {c}] : c \in RateCubes}

StoreProducts(h, fit, n) ==
    IF fit.rate = NoRef THEN h
    ELSE [h EXCEPT ![fit.rate] = [kind |-> "rate", fit |-> n, gain_scaled |-> FALSE],
                   ![fit.rateints] = [kind |-> "rateints", fit |-> n,
                                      gain_scaled |-> FALSE,
                                      instrument |-> meta.instrument,
                                      data |-> CHOOSE c \in fit.cube : TRUE]]

\* Lines 158-160 and 168-170: the ramp fit, and the choice between flagging
\* outliers for a second fit and carrying its products forward.  A skipped
\* step returns its input.
ProcessRampFit ==
    /\ pc = "ramp_fit"
    /\ \E fit \in IF steps.ramp_fit.skip
                   THEN {[rate |-> input, rateints |-> NoRef, cube |-> {}]}
                   ELSE RampFitResults(3, 4) :
         /\ heap' = IF steps.ramp_fit.skip THEN heap ELSE StoreProducts(heap, fit, 1)
         /\ IF steps.self.rate_int_outliers /\ fit.rateints # NoRef
            THEN /\ loc' = [rate |-> fit.rate, rateints |-> fit.rateints,
                            ints_model |-> NoRef]
                 /\ pc' = "apply_rateint_outliers"
                 /\ input' = input
            ELSE /\ loc' = [rate |-> fit.rate, rateints |-> fit.rateints,
                            ints_model |-> fit.rateints]
                 /\ pc' = "gain_scale"
                 /\ input' = fit.rate
         /\ hist' = [hist EXCEPT !.fits = 1]
    /\ UNCHANGED <<meta, res, steps>>

\* Lines 162-167, after apply_rateint_outliers has returned the ramp model:
\* it is never None, so the ramp fit runs again and its result is taken as
\* it comes.
ProcessRefit ==
    /\ pc = "outliers_return"
    /\ \E fit \in {f \in RampFitResults(5, 6) :
                      f.cube \subseteq {heap[loc.rateints].data}} :
         /\ heap' = StoreProducts(heap, fit, 2)
         /\ input' = fit.rate
         /\ loc' = [loc EXCEPT !.ints_model =
                       IF steps.ramp_fit.skip THEN NoRef ELSE fit.rateints]
         /\ hist' = [hist EXCEPT !.fits = 2, !.refit_null = (fit.rate = NoRef)]
    /\ pc' = "gain_scale"
    /\ UNCHANGED <<meta, res, steps>>

\* Lines 172-184: the gain scale step on the rate product and on the
\* rateints product, each when it is there.
ProcessGainScale ==
    /\ pc = "gain_scale"
    /\ LET h1 == IF input = NoRef THEN heap
                 ELSE [heap EXCEPT ![input].gain_scaled = TRUE]
       IN  heap' = IF loc.ints_model = NoRef THEN h1
                   ELSE [h1 EXCEPT ![loc.ints_model].gain_scaled = TRUE]
    /\ steps' = IF input = NoRef /\ loc.ints_model = NoRef THEN steps
                ELSE [steps EXCEPT !.gain_scale.suffix =
                        IF loc.ints_model # NoRef THEN "rateints" ELSE "rate"]
    /\ pc' = "setup_output"
    /\ UNCHANGED <<meta, input, res, loc, hist>>

\* Lines 186-192: the product process returns.
ProcessReturn ==
    /\ pc = "setup_output"
    /\ res' = IF steps.self.return_rateints THEN loc.ints_model ELSE input
    /\ pc' = "process_return"
    /\ UNCHANGED <<meta, heap, input, steps, loc, hist>>

\* ---------------------------------------------------------- initial states
NoModel == None

\* Pixel DQ arrays that carry, between them, every combination of a real
\* reference pixel and another flag at every pixel.
PixeldqPattern(s) ==
    [p \in Pixels |->
        CASE (p[1] + p[2] + s) % 3 = 0 -> {}
          [] (p[1] + p[2] + s) % 3 = 1 -> {"REFERENCE_PIXEL", "DO_NOT_USE"}
          [] OTHER -> {"RC"}]

\* Ramps whose groupdq is clean (k = 0) or already carries flags (k = 1).
GroupdqPattern(k, nints, ngroups, pixels) ==
    [i \in 0..(nints - 1) |-> [g \in 0..(ngroups - 1) |-> [p \in pixels |->
        CASE k = 0 -> {}
          [] (i + g + p[2]) % 3 = 0 -> {}
          [] (i + g + p[2]) % 3 = 1 -> {"SATURATED", "DO_NOT_USE"}
          [] OTHER -> {"JUMP_DET"}]]]

NoHist ==
    [pseudo |-> FALSE, pre_flood |-> None, seen |-> None, corrected |-> None,
     entry |-> None, entry_opts |-> None, opts_seen |-> None, calls |-> 0,
     trace |-> <<>>, raised |-> "no"]

RefpixParams ==
    [nlower : 0..MaxRows, nupper : 0..MaxRows, nrow_off : 0..1,
     nleft : 0..1, nright : 0..1, ncol_off : 0..1,
     use_side_ref_pixels : BOOLEAN, save_results : BOOLEAN]

InitRefpix ==
    /\ pc = "do_refpix"
    /\ \E ff \in BOOLEAN :
         meta = [instrument |-> "NIRCAM", full_frame |-> ff, ny |-> RefpixNY, nx |-> RefpixNX]
    /\ \E s \in 0..2 :
         heap = [id \in ModelIds |->
                   IF id = 1
                   THEN [pixeldq |-> PixeldqPattern(s),
                         groupdq |-> GroupdqPattern(1, 1, 1, Pixels)]
                   ELSE NoModel]
    /\ input = 1
    /\ res = NoRef
    /\ \E rp \in RefpixParams : steps = [refpix |-> rp]
    /\ loc = [pixeldq_orig |-> None]
    /\ hist = NoHist

SaturationParams ==
    [n_pix_grow_sat : 0..MaxGrow, grow_diagonal : BOOLEAN, flag_rcsat : BOOLEAN]

\* The ramp at the saturation step: no sample flagged but one DO_NOT_USE, at
\* most one RC pixel (on the diagonal), no zero frame saturated yet.
InitSaturation ==
    /\ pc = "do_saturation"
    /\ \E zf \in BOOLEAN :
         meta = [instrument |-> "NIRCAM", full_frame |-> FALSE, zero_frame |-> zf,
                 nints |-> SatInts, ngroups |-> SatGroups, ny |-> SatNY, nx |-> SatNX]
    /\ \E rc \in AtMostOne({<<k, k>> : k \in 0..(Min(SatNY, SatNX) - 1)}) :
         heap = [id \in ModelIds |->
                   IF id = 1
                   THEN [pixeldq |-> [p \in (0..(SatNY - 1)) \X (0..(SatNX - 1)) |->
                                        IF p \in rc THEN {"RC"} ELSE {}],
                         groupdq |-> [i \in 0..(SatInts - 1) |->
                                      [g \in 0..(SatGroups - 1) |->
                                       [p \in (0..(SatNY - 1)) \X (0..(SatNX - 1)) |->
                                          IF i = 0 /\ g = 0 /\ p = <<0, 0>>
                                          THEN {"DO_NOT_USE"} ELSE {}]]],
                         zeroframe |-> [i \in 0..(SatInts - 1) |->
                                        [p \in (0..(SatNY - 1)) \X (0..(SatNX - 1)) |-> 1]]]
                   ELSE NoModel]
    /\ input = 1
    /\ res = NoRef
    /\ \E sat \in SaturationParams : steps = [saturation |-> sat]
    /\ loc = [npix_grow |-> 0]
    /\ hist = [entry |-> None, entry_opts |-> None, seen |-> None, stepped |-> None,
               n_pix_seen |-> 0, seeds |-> None, grown |-> FALSE]

NextSaturation ==
    \/ SaturationFlagRC
    \/ SaturationStepDefault
    \/ SaturationStepNoGrowth
    \/ SaturationGrow

SpecSaturation == InitSaturation /\ [][NextSaturation]_vars

\* The calibrated ramp handed to the ramp fit.
InitRampFit ==
    /\ pc = "ramp_fit"
    /\ \E inst \in {"NIRCAM", "MIRI"}, n \in (NintMin - 1)..MaxRateInts,
          ng \in 1..2, k \in 0..1 :
         /\ meta = [instrument |-> inst, full_frame |-> FALSE, zero_frame |-> FALSE,
                    nints |-> n, ngroups |-> ng, ny |-> 1, nx |-> RateNX]
         /\ heap = [id \in ModelIds |->
                      IF id = 1
                      THEN [groupdq |-> GroupdqPattern(k, n, ng, {0} \X (0..(RateNX - 1))),
                            gain_scaled |-> FALSE]
                      ELSE NoModel]
    /\ input = 1
    /\ res = NoRef
    /\ \E skip, outl, ret \in BOOLEAN :
         steps = [ramp_fit |-> [skip |-> skip],
                  gain_scale |-> [suffix |-> "gain_scale"],
                  self |-> [rate_int_outliers |-> outl, return_rateints |-> ret]]
    /\ loc = [rate |-> NoRef, rateints |-> NoRef, ints_model |-> NoRef]
    /\ hist = [fits |-> 0, refit_null |-> FALSE, before |-> None, indbad |-> None,
               raised |-> "no"]

NextRampFit ==
    \/ ProcessRampFit
    \/ ApplyRateintOutliers
    \/ ProcessRefit
    \/ ProcessGainScale
    \/ ProcessReturn

SpecRampFit == InitRampFit /\ [][NextRampFit]_vars

\* Ramp data: a bias that differs from integration to integration, a slope
\* that differs from pixel to pixel, and a pattern on top.
DataPattern(k, nints, ngroups, pixels) ==
    [i \in 0..(nints - 1) |-> [g \in 0..(ngroups - 1) |-> [p \in pixels |->
        2 * i + (g + 1) * ((p[2] + k) % 3) + ((p[1] + g * k) % 2)]]]

\* The calibrated ramp at line 148 of process.  A full-frame cube is square;
\* a sub-array need not be.
InitNoise ==
    /\ pc = "process_ktc"
    /\ \E ff \in BOOLEAN, nout \in {1, 2, 4},
          ny \in {NoiseNY \div 2, NoiseNY}, nx \in {NoiseNX \div 2, NoiseNX},
          kd \in 0..1, kq \in 0..1 :
         /\ ff => ny = NoiseNY /\ nx = NoiseNY
         /\ meta = [instrument |-> "NIRCAM", full_frame |-> ff, zero_frame |-> FALSE,
                    noutputs |-> nout, nints |-> NoiseInts, ngroups |-> NoiseGroups,
                    ny |-> ny, nx |-> nx, group_time |-> 1,
                    sat_thresh |-> [p \in (0..(ny - 1)) \X (0..(nx - 1)) |-> SatLevel]]
         /\ heap = [id \in ModelIds |->
                      IF id = 1
                      THEN [data |-> DataPattern(kd, NoiseInts, NoiseGroups,
                                                 (0..(ny - 1)) \X (0..(nx - 1))),
                            groupdq |-> GroupdqPattern(kq, NoiseInts, NoiseGroups,
                                                       (0..(ny - 1)) \X (0..(nx - 1))),
                            pixeldq |-> [p \in (0..(ny - 1)) \X (0..(nx - 1)) |-> {}]]
                      ELSE NoModel]
    /\ input = 1
    /\ res = NoRef
    /\ \E ktc, fnoise \in BOOLEAN :
         steps = [self |-> [remove_ktc |-> ktc, remove_fnoise |-> fnoise]]
    /\ loc = [rate |-> NoRef]
    /\ hist = [fits |-> 0, raised |-> "no", fit_mask |-> None, fnoise_mask |-> None,
               nsub |-> None, ktc_entry |-> None, fnoise_entry |-> None,
               ktc_slope |-> None, fnoise_slope |-> None, called |-> <<>>]

NextNoise == ProcessKtc \/ SubtractKtc \/ ProcessFnoise \/ SubtractFnoise

SpecNoise == InitNoise /\ [][NextNoise]_vars

\* --------------------------------------------------------- run_single_file
\* kwargs.get(key, default) for a boolean option, absent keys being "unset".
KwGet(kwargs, key, default) ==
    IF kwargs[key] = "unset" THEN default ELSE kwargs[key] = "True"

\* What pipeline.run may raise: failures of the stages and of the external
\* steps, and an interrupt, which is no Exception.
ExceptionKinds == {"ValueError", "AssertionError", "RuntimeError"}
RaiseKinds == ExceptionKinds \cup {"KeyboardInterrupt"}

\* The except clause written for RuntimeError alone.
HandledRuntimeOnly(kind) == kind = "RuntimeError"

\* Line 845: except Exception as e
Handled(kind) == kind \in ExceptionKinds

\* Lines 776-838: build the pipeline and set its options from kwargs, the
\* file's header and the steps dictionary.
ConfigurePipeline ==
    /\ pc = "run_single_file"
    /\ LET kw == loc.kwargs
           skip_dark == IF kw.skip_dark = "unset" THEN ~meta.full_frame
                        ELSE kw.skip_dark = "True"
           nb == IF meta.instrument = "NIRCAM" THEN meta.ref_info[1] ELSE 0
           nt == IF meta.instrument = "NIRCAM" THEN meta.ref_info[2] ELSE 0
           rows == IF nb + nt = 0 THEN <<4, 4>> ELSE <<nb, nt>>
           sat == [n_pix_grow_sat |-> 1, grow_diagonal |-> FALSE, flag_rcsat |-> TRUE]
       IN  steps' = [self |-> [return_rateints |-> KwGet(kw, "return_rateints", FALSE),
                               rate_int_outliers |-> KwGet(kw, "rate_int_outliers", TRUE),
                               remove_ktc |-> KwGet(kw, "remove_ktc", TRUE),
                               remove_fnoise |-> KwGet(kw, "remove_fnoise", TRUE)],
                     dark_current |-> [skip |-> skip_dark],
                     refpix |-> [nlower |-> rows[1], nupper |-> rows[2], nrow_off |-> 0],
                     saturation |-> IF loc.steps_arg
                                    THEN [sat EXCEPT !.grow_diagonal = TRUE]
                                    ELSE sat]
    /\ pc' = "try"
    /\ UNCHANGED <<meta, heap, input, res, loc, hist>>

\* Lines 842-844: res = pipeline.run(fitspath), which returns a product or
\* a list of products, or raises.
PipelineRun ==
    /\ pc = "try"
    /\ \/ /\ \E is_list \in BOOLEAN : loc' = [loc EXCEPT !.res_is_list = is_list]
          /\ res' = 1
          /\ hist' = [hist EXCEPT !.runs = hist.runs + 1]
          /\ pc' = "finally"
       \/ \E kind \in RaiseKinds :
            /\ loc' = [loc EXCEPT !.pending = [type |-> kind, wraps |-> "nothing"]]
            /\ res' = res
            /\ hist' = [hist EXCEPT !.runs = hist.runs + 1, !.failure = kind]
            /\ pc' = IF Handled(kind) THEN "except" ELSE "finally"
    /\ UNCHANGED <<meta, heap, input, steps>>

\* Lines 845-849: the caught exception is replaced by a RuntimeError that
\* carries its message.
ExceptClause ==
    /\ pc = "except"
    /\ loc' = [loc EXCEPT !.pending = [type |-> "RuntimeError", wraps |-> loc.pending.type]]
    /\ hist' = [hist EXCEPT !.wrapped = hist.wrapped + 1]
    /\ pc' = "finally"
    /\ UNCHANGED <<meta, heap, input, res, steps>>

\* Lines 850-851: pipeline.closeout(), then the pending exception, if any,
\* goes on to the caller.
FinallyCloseout ==
    /\ pc = "finally"
    /\ hist' = [hist EXCEPT !.closeouts = hist.closeouts + 1]
    /\ pc' = IF loc.pending.type = "nothing" THEN "after_try" ELSE "raised"
    /\ UNCHANGED <<meta, heap, input, res, steps, loc>>

\* Lines 853-856: the first product of a list, or the product.
ReturnResult ==
    /\ pc = "after_try"
    /\ loc' = [loc EXCEPT !.res_is_list = FALSE]
    /\ pc' = "returned"
    /\ UNCHANGED <<meta, heap, input, res, steps, hist>>

KwValues == {"unset", "True", "False"}

InitRunSingle ==
    /\ pc = "run_single_file"
    /\ \E ff \in BOOLEAN, inst \in {"NIRCAM", "MIRI"}, info \in {<<0, 0>>, <<4, 0>>} :
         meta = [instrument |-> inst, full_frame |-> ff, ref_info |-> info]
    /\ heap = [id \in ModelIds |-> IF id = 1 THEN [suffix |-> "rate"] ELSE NoModel]
    /\ input = 1
    /\ res = NoRef
    /\ steps = [self |-> None]
    /\ \E kw \in [{"return_rateints", "rate_int_outliers", "remove_ktc", "remove_fnoise",
                    "skip_dark"} -> KwValues], sa \in BOOLEAN :
         loc = [kwargs |-> kw, steps_arg |-> sa, res_is_list |-> FALSE,
                pending |-> [type |-> "nothing", wraps |-> "nothing"]]
    /\ hist = [runs |-> 0, closeouts |-> 0, wrapped |-> 0, failure |-> "none"]

NextRunSingle ==
    \/ ConfigurePipeline
    \/ PipelineRun
    \/ ExceptClause
    \/ FinallyCloseout
    \/ ReturnResult

SpecRunSingle == InitRunSingle /\ [][NextRunSingle]_vars

NextRefpix == DoRefpix \/ PseudoRefpixFlood \/ PseudoRefpixStep \/ PseudoRefpixRestore

SpecRefpix == InitRefpix /\ [][NextRefpix]_vars

\* do_saturation and do_refpix side by side: the stages that override a
\* step's configuration for the time of a call.
InitScoped == InitSaturation \/ InitRefpix

NextScoped == NextSaturation \/ NextRefpix

SpecScoped == InitScoped /\ [][NextScoped]_vars

\* The core stages side by side, each from the cubes it may be handed:
\* do_saturation, do_refpix, subtract_ktc and subtract_fnoise, and
\* apply_rateint_outliers within the ramp fit.
InitStages == InitSaturation \/ InitRefpix \/ InitNoise \/ InitRampFit

NextStages == NextSaturation \/ NextRefpix \/ NextNoise \/ NextRampFit

SpecStages == InitStages /\ [][NextStages]_vars

\* ------------------------------------------------------------- properties
Abs(n) == IF n < 0 THEN -n ELSE n
Manhattan(p, q) == Abs(p[1] - q[1]) + Abs(p[2] - q[2])
Chebyshev(p, q) == Max(Abs(p[1] - q[1]), Abs(p[2] - q[2]))

SaturatedIn(groupdq, i, g) == {p \in Pixels : "SATURATED" \in groupdq[i][g][p]}

SaturationGrown == pc = "saturation_return" /\ hist.grown

\* C3: with grow_diagonal false and n_pix_grow_sat = r > 0, the SATURATED
\* samples of the result are those the zero-growth routine left, plus exactly
\* the samples within Manhattan distance r of a seed (a sample of the mask
\* handed to the growth) of the same integration and group: nothing is
\* reached through a corner, and a single seed grows into its Manhattan ball.
C3_ManhattanGrowth ==
    SaturationGrown =>
        \A i \in Ints, g \in Groups :
            SaturatedIn(heap[res].groupdq, i, g) =
                SaturatedIn(hist.stepped, i, g)
                \cup {p \in Pixels : \E q \in hist.seeds[<<i, g>>] :
                                        Manhattan(p, q) <= loc.npix_grow}

\* C3's case: radius 2, an image with a single seed, a sample at Manhattan
\* distance 2 that gained the flag, and a sample of the seed's box of radius
\* 2, farther than 2 along rows and columns, that did not.
C3_Witness ==
    /\ SaturationGrown
    /\ loc.npix_grow = 2
    /\ \E i \in Ints, g \in Groups :
         /\ Cardinality(hist.seeds[<<i, g>>]) = 1
         /\ \E q \in hist.seeds[<<i, g>>], p1, p2 \in Pixels :
              /\ Manhattan(p1, q) = 2
              /\ "SATURATED" \in heap[res].groupdq[i][g][p1]
              /\ "SATURATED" \notin hist.stepped[i][g][p1]
              /\ Chebyshev(p2, q) <= 2 /\ Manhattan(p2, q) > 2
              /\ "SATURATED" \notin heap[res].groupdq[i][g][p2]

\* C4: with flag_rcsat, every sample of every RC pixel is SATURATED in the
\* returned model; without it, the routine is handed groupdq as it was at
\* entry and every SATURATED sample of the result is one the routine flagged
\* or lies within the growth of one (none rests on RC).
C4_FlagRcsat ==
    pc = "saturation_return" =>
        IF loc.flag_rcsat
        THEN \A p \in Pixels : "RC" \in heap[res].pixeldq[p] =>
                \A i \in Ints, g \in Groups : "SATURATED" \in heap[res].groupdq[i][g][p]
        ELSE /\ hist.seen = hist.entry
             /\ \A i \in Ints, g \in Groups :
                    \A p \in SaturatedIn(heap[res].groupdq, i, g) :
                       \E q \in SaturatedIn(hist.stepped, i, g) :
                          Manhattan(p, q) <= (IF hist.grown THEN loc.npix_grow ELSE 0)

\* C4's case: flag_rcsat set, an RC pixel, not flagged when do_saturation
\* was entered.
C4_Witness ==
    /\ pc = "saturation_return"
    /\ loc.flag_rcsat
    /\ \E p \in Pixels :
         /\ "RC" \in heap[res].pixeldq[p]
         /\ \A i \in Ints, g \in Groups : "SATURATED" \notin hist.entry[i][g][p]

OutlierBits(i, p) ==
    IF p \in hist.indbad[i] THEN {"DO_NOT_USE", "JUMP_DET"} ELSE {}

\* C5: when apply_rateint_outliers returns, every sample of the ramp's
\* groupdq is what it was with DO_NOT_USE and JUMP_DET added if its
\* (integration, pixel) is an outlier, and unchanged otherwise.
C5_OutlierFlagsExact ==
    pc = "outliers_return" =>
        \A i \in Ints, g \in Groups, p \in Pixels :
            heap[input].groupdq[i][g][p] = hist.before[i][g][p] \cup OutlierBits(i, p)

\* C5's case: one outlier in a ramp of two groups whose samples carried
\* other flags, some on the outlier's pixel, some elsewhere.
C5_Witness ==
    /\ pc = "outliers_return"
    /\ meta.ngroups = 2
    /\ Cardinality({s \in Ints \X Pixels : s[2] \in hist.indbad[s[1]]}) = 1
    /\ \E i \in Ints, p \in Pixels :
         /\ p \in hist.indbad[i]
         /\ hist.before[i][0][p] = {}
         /\ hist.before[i][1][p] = {"SATURATED", "DO_NOT_USE"}
         /\ \E j \in Ints \ {i} : heap[input].groupdq[j][0][p] = {"JUMP_DET"}

\* C6: with fewer integrations than the minimum, apply_rateint_outliers
\* returns without an error and leaves the ramp's groupdq as it was.
C6_NoOpBelowMinimum ==
    (meta.nints < NintMin /\ pc \in {"outliers_return", "raised"}) =>
        (pc = "outliers_return" /\ heap[input].groupdq = hist.before)

\* C7: when outlier flags were written and the second ramp fit returned
\* nothing, the products carried to the gain scale and returned are those
\* of the first fit.
C7_RefitFallback ==
    (/\ pc = "process_return"
     /\ hist.fits = 2 /\ hist.refit_null
     /\ \E i \in Ints : hist.indbad[i] # {})
    => /\ input = loc.rate
       /\ loc.ints_model = loc.rateints
       /\ res = IF steps.self.return_rateints THEN loc.rateints ELSE loc.rate

\* The pixels of the flooded border regions, from the widths and offsets:
\* rows [nrow_off, nrow_off+nlower) and [ny-nupper-nrow_off, ny-nrow_off),
\* columns [ncol_off, ncol_off+nleft) and [nx-nright-ncol_off, nx-ncol_off).
FloodedPixels ==
    LET rp == steps.refpix
    IN  {p \in Pixels :
           \/ rp.nrow_off <= p[1] /\ p[1] < rp.nrow_off + rp.nlower
           \/ meta.ny - rp.nupper - rp.nrow_off <= p[1] /\ p[1] < meta.ny - rp.nrow_off
           \/ rp.ncol_off <= p[2] /\ p[2] < rp.ncol_off + rp.nleft
           \/ meta.nx - rp.nright - rp.ncol_off <= p[2] /\ p[2] < meta.nx - rp.ncol_off}

PseudoRefpixReturned == pc = "refpix_return" /\ hist.pseudo

\* C1: the restore alters no bit other than REFERENCE_PIXEL: every other bit
\* the correction left set in the result's pixeldq, inside or outside the
\* flooded regions, is still set when do_pseudo_refpix returns.
C1_RestoreKeepsOtherBits ==
    PseudoRefpixReturned =>
        \A p \in Pixels :
            (hist.corrected[p] \ {"REFERENCE_PIXEL"}) \subseteq heap[res].pixeldq[p]

\* C2: when do_pseudo_refpix has returned, every pixel of the result's pixeldq
\* in a flooded region has its value from before the flood, and every pixel
\* outside the flooded regions has the value the correction left (the restore
\* wrote nothing there).
C2_RestoreExact ==
    PseudoRefpixReturned =>
        \A p \in Pixels :
            heap[res].pixeldq[p] =
                IF p \in FloodedPixels THEN hist.pre_flood[p] ELSE hist.corrected[p]

\* C2's case: overlapping row and column regions, a flooded pixel that was
\* no reference pixel before the flood, and a flag raised by the correction
\* outside the flooded regions.
C2_Witness ==
    /\ PseudoRefpixReturned
    /\ Regions(steps.refpix)[1] \cap Regions(steps.refpix)[2] # {}
    /\ Regions(steps.refpix)[2] \cap Regions(steps.refpix)[3] # {}
    /\ \E p \in FloodedPixels : "REFERENCE_PIXEL" \notin hist.pre_flood[p]
    /\ \E p \in Pixels \ FloodedPixels : hist.corrected[p] # hist.pre_flood[p]

\* ------------------------------------------------------------------------
\* C8: subtract_fnoise, entered with a full-frame cube that has not exactly 4
\* readout outputs or a sub-array cube that has not exactly 1, does not
\* return: it raises AssertionError, and the cube's data and groupdq are
\* those at entry.
C8_ChannelCountFatal ==
    (/\ pc \in {"fnoise_return", "raised"}
     /\ \/ meta.full_frame /\ meta.noutputs # 4
        \/ ~meta.full_frame /\ meta.noutputs # 1)
    => /\ pc = "raised"
       /\ hist.raised = "AssertionError"
       /\ heap[input].data = hist.fnoise_entry.data
       /\ heap[input].groupdq = hist.fnoise_entry.groupdq

C8_Witness ==
    /\ pc = "raised"
    /\ ~meta.full_frame
    /\ meta.noutputs = 4
    /\ hist.fits = 1

\* C9: when subtract_ktc returns, every sample data[i][g][p] is its value at
\* entry less the intercept that the slope fit of the cube at entry gives for
\* integration i at pixel p; groupdq and pixeldq are those at entry.
C9_BiasPerIntegration ==
    pc = "ktc_return" =>
        LET before == hist.ktc_entry
            bias   == FitSlopes(before).bias_arr
        IN  /\ \A i \in Ints, g \in Groups, p \in Pixels :
                 heap[input].data[i][g][p] =
                     IF bias[i][p] = NaN THEN NaN
                     ELSE before.data[i][g][p] - bias[i][p]
            /\ heap[input].groupdq = before.groupdq
            /\ heap[input].pixeldq = before.pixeldq

C9_Witness ==
    /\ pc = "ktc_return"
    /\ LET bias == FitSlopes(hist.ktc_entry).bias_arr
       IN  \E i1, i2 \in Ints, p \in Pixels :
             /\ bias[i1][p] # NaN /\ bias[i2][p] # NaN
             /\ bias[i1][p] # bias[i2][p]
             /\ bias[i2][p] # 0

\* A mask of shape [nints][ngroups] holds pixel p at group g exactly when
\* some group up to g of p has a nonzero groupdq word, and never loses a
\* pixel from one group to the next.
IsCumulative(mask, groupdq) ==
    /\ \A i \in Ints, g \in Groups, p \in Pixels :
         p \in mask[i][g] <=> \E g2 \in 0..g : groupdq[i][g2][p] # {}
    /\ \A i \in Ints, g \in Groups, g2 \in Groups :
         g <= g2 => mask[i][g] \subseteq mask[i][g2]

\* C10: the bad-sample mask of _fit_slopes, and that of subtract_fnoise,
\* is true at group g of a pixel exactly when a group g' <= g of the pixel
\* has a nonzero groupdq value, and so is non-decreasing along the groups.
C10_CumulativeMask ==
    /\ hist.fits > 0 => IsCumulative(hist.fit_mask, heap[input].groupdq)
    /\ pc = "fnoise_return" => IsCumulative(hist.fnoise_mask, heap[input].groupdq)

C10_Witness ==
    /\ pc = "fnoise_return"
    /\ \E i \in Ints, g \in Groups, p \in Pixels :
         /\ heap[input].groupdq[i][g][p] = {}
         /\ p \in hist.fnoise_mask[i][g]
         /\ p \in hist.fit_mask[i][g]
\* ------------------------------------------------------------------------
\* The three states after NORMAL, in order.
RefpixStates == <<"FLAGGED", "CORRECTED", "RESTORED">>

C15_FloodSeenByStep ==
    (hist.pseudo /\ hist.calls = 1) =>
        /\ \A p \in Pixels :
              hist.seen[p] = IF p \in FloodedPixels
                             THEN hist.pre_flood[p] \cup {"REFERENCE_PIXEL"}
                             ELSE hist.pre_flood[p]
        /\ hist.entry_opts.nleft + hist.entry_opts.nright = 0
              => ~hist.opts_seen.use_side_ref_pixels

\* C15's case: rows offset from the edges, no columns, the side reference
\* pixels in use before the call.
C15_Witness ==
    /\ hist.pseudo /\ hist.calls = 1
    /\ hist.entry_opts.nrow_off = 1
    /\ hist.entry_opts.nlower > 0 /\ hist.entry_opts.nupper > 0
    /\ hist.entry_opts.nleft + hist.entry_opts.nright = 0
    /\ hist.entry_opts.use_side_ref_pixels
    /\ \E p \in FloodedPixels : "REFERENCE_PIXEL" \notin hist.pre_flood[p]
    /\ \E p \in Pixels \ FloodedPixels : p[1] = 0

\* C17: when the correction fails inside do_pseudo_refpix, the flooded
\* regions of the cube's pixeldq are back at their values from before the
\* flood and use_side_ref_pixels is back at its value from before the call.
C17_FloodReleasedOnFailure ==
    (pc = "raised" /\ hist.pseudo) =>
        /\ \A p \in FloodedPixels : heap[input].pixeldq[p] = hist.pre_flood[p]
        /\ steps.refpix.use_side_ref_pixels = hist.entry_opts.use_side_ref_pixels
\* ------------------------------------------------------------------------
\* C16: with grow_diagonal false and n_pix_grow_sat = r > 0, every sample
\* the zero-growth routine left SATURATED has all samples within Manhattan
\* distance r, in its integration and group, SATURATED in the returned
\* model, whether the routine worked in place or on a copy.
C16_GrowthFromRoutineFlags ==
    SaturationGrown =>
        \A i \in Ints, g \in Groups :
            \A q \in SaturatedIn(hist.stepped, i, g), p \in Pixels :
                Manhattan(p, q) <= loc.npix_grow
                    => "SATURATED" \in heap[res].groupdq[i][g][p]

\* C20: when do_saturation returns, n_pix_grow_sat (0 for the routine when
\* the growth is done by hand) and the other saturation options are those
\* of entry; when do_refpix returns, use_side_ref_pixels and save_results
\* (false while the correction ran) and the other refpix options are those
\* of entry.
C20_OverridesScoped ==
    /\ pc = "saturation_return" =>
          /\ steps.saturation = hist.entry_opts
          /\ hist.grown => hist.n_pix_seen = 0
    /\ pc = "refpix_return" =>
          /\ steps.refpix = hist.entry_opts
          /\ ~hist.opts_seen.save_results

\* C20's case: do_pseudo_refpix returned, having switched off the side
\* reference pixels and the saving for the call, both on before it.
C20_Witness ==
    /\ pc = "refpix_return"
    /\ hist.pseudo
    /\ hist.entry_opts.use_side_ref_pixels
    /\ hist.entry_opts.save_results
    /\ ~hist.opts_seen.use_side_ref_pixels
    /\ ~hist.opts_seen.save_results

\* Every bit of every sample of before is in that sample of after.
GroupdqKept(before, after) ==
    \A i \in DOMAIN before : \A g \in DOMAIN before[i] : \A p \in DOMAIN before[i][g] :
        before[i][g][p] \subseteq after[i][g][p]

\* C11: the cube a core stage returns has, in every sample of groupdq, every
\* bit the sample had when the stage was entered.
C11_FlagsOnlyAdded ==
    /\ pc = "saturation_return" => GroupdqKept(hist.entry, heap[res].groupdq)
    /\ pc = "refpix_return" => GroupdqKept(hist.entry.groupdq, heap[res].groupdq)
    /\ pc = "ktc_return" => GroupdqKept(hist.ktc_entry.groupdq, heap[input].groupdq)
    /\ pc = "fnoise_return" => GroupdqKept(hist.fnoise_entry.groupdq, heap[input].groupdq)
    /\ pc = "outliers_return" => GroupdqKept(hist.before, heap[input].groupdq)

\* C11's case: do_saturation returned a copy in which a sample flagged at
\* entry gained SATURATED through the growth.
C11_Witness ==
    /\ SaturationGrown
    /\ res # input
    /\ \E i \in Ints, g \in Groups, p \in Pixels :
         /\ hist.entry[i][g][p] # {}
         /\ "SATURATED" \notin hist.entry[i][g][p]
         /\ "SATURATED" \notin hist.stepped[i][g][p]
         /\ "SATURATED" \in heap[res].groupdq[i][g][p]
\* ------------------------------------------------------------------------
\* The stages process has called, as a set.
StagesCalled == {hist.called[k] : k \in DOMAIN hist.called}

\* process is past the noise removal (line 153), all stages having returned.
NoiseRemovalDone == pc \in {"save_ramp", "fnoise_return"}

\* C13: on a non-MIRI exposure, past the noise removal, subtract_ktc has
\* been called exactly when remove_ktc is true, and subtract_fnoise exactly
\* when remove_fnoise is true.
C13_StagesFollowOptions ==
    NoiseRemovalDone =>
        /\ "subtract_ktc" \in StagesCalled <=> steps.self.remove_ktc
        /\ "subtract_fnoise" \in StagesCalled <=> steps.self.remove_fnoise

\* C18: when subtract_ktc and subtract_fnoise have both run in a pass, the
\* slope fit was made once, and the slopes subtract_fnoise used are those of
\* the fit made for subtract_ktc.
C18_FitReused ==
    (pc = "fnoise_return" /\ "subtract_ktc" \in StagesCalled) =>
        /\ hist.fits = 1
        /\ hist.fnoise_slope = hist.ktc_slope

\* C19: when subtract_fnoise returns, every column of the cube lies in
\* exactly one channel band: every sample had one noise model subtracted.
C19_BandsPartitionColumns ==
    pc = "fnoise_return" => \A p \in Pixels : hist.nsub[p] = 1
\* ------------------------------------------------------------------------
\* C12: pipeline.run is attempted at most once and pipeline.closeout called
\* at most once; when run_single_file is left, each has happened exactly
\* once, and a failure raised by the run has reached the caller as one
\* RuntimeError made from it.
C12_SingleWrappedFailure ==
    /\ hist.runs <= 1 /\ hist.closeouts <= 1 /\ hist.wrapped <= 1
    /\ pc \in {"raised", "returned"} =>
          /\ hist.runs = 1 /\ hist.closeouts = 1
          /\ hist.failure \in ExceptionKinds =>
                /\ pc = "raised"
                /\ hist.wrapped = 1
                /\ loc.pending = [type |-> "RuntimeError", wraps |-> hist.failure]
          /\ hist.failure = "none" => pc = "returned"

\* C12's case: a stage's assertion failed during the run.
C12_Witness ==
    /\ pc = "raised"
    /\ hist.failure = "AssertionError"
    /\ loc.pending.type = "RuntimeError"
    /\ hist.closeouts = 1
\* ------------------------------------------------------------------------
\* C21: for every instrument apply_rateint_outliers returns without an
\* error, and an outlier found in integration k of the rateints cube (plane
\* k - 1 of the cube handed to the detector for MIRI, plane k otherwise) has
\* DO_NOT_USE and JUMP_DET on every group of integration k of the ramp.
C21_OutlierKeepsIntegration ==
    pc \in {"outliers_return", "raised"} =>
        /\ pc = "outliers_return"
        /\ LET rateints_model == heap[loc.rateints]
               off   == IF rateints_model.instrument = "MIRI" THEN 1 ELSE 0
               data  == IF off = 1 THEN DropFirst(rateints_model.data)
                        ELSE rateints_model.data
               found == CubeOutlierDetection(data, SigmaCut, NintMin)
           IN  \A j \in DOMAIN found : \A p \in found[j] : \A g \in Groups :
                   {"DO_NOT_USE", "JUMP_DET"} \subseteq heap[input].groupdq[j + off][g][p]
====
